---- MODULE Spec2Model ----
(***************************************************************************)
(* Model of the Library class of operations.py: the book mapping, the      *)
(* member list and the add / update / delete / borrow / return operations. *)
(*                                                                         *)
(* Every operation is a pure operator from a library value                 *)
(* [books, members] and the call's arguments to the library value after    *)
(* the call plus the call's outcome ("ok" for `return True`, otherwise a   *)
(* label naming the raise statement that ended the call).  The actions     *)
(* apply these operators to the state: books is self.books in the dict's   *)
(* insertion order, members is self.members.  The queries are operators    *)
(* of the library value, and a last specification runs borrow_book and     *)
(* return_book statement by statement for two callers.                     *)
(***************************************************************************)
EXTENDS Integers, Sequences, FiniteSets, TLC

\* books and members are the Library; calls is, for each caller, the
\* borrow_book or return_book call it is in the middle of, and locked tells
\* whether the callers exclude one another (one call at a time).
VARIABLES books, members, calls, locked

vars == <<books, members, calls, locked>>

(***************************************************************************)
(* Bounds and input domains.                                               *)
(***************************************************************************)
MaxCopies == 2

\* Inputs common to the specifications: a valid and an invalid value of each
\* validated argument.
AUTHORS == {"Herbert"}
GENRE_INPUTS == {"Fiction", "InvalidGenre"}
COPY_INPUTS == 0..MaxCopies

\* Spec: two books and two members, so that a book can be out with both
\* members and each member can hold both books; titles and names have two
\* values, so that an assignment to them shows.
ISBNS == {"i1", "i2"}
MEMBER_IDS == {"M1", "M2"}
TITLES == {"Dune", "Emma"}
NAMES == {"Ann", "Bob"}

\* SpecLimit: four books and one member, so that the member can hold three
\* books while a fourth is in the catalog; the text fields have one value.
LIMIT_ISBNS == {"i1", "i2", "i3", "i4"}
LIMIT_MEMBER_IDS == {"M1"}
LIMIT_TITLES == {"Dune"}
LIMIT_NAMES == {"Ann"}

\* SpecFields: two books and one member with two valid values of every text
\* field, so that each assignment of update_book and update_member shows.
FIELD_ISBNS == {"i1", "i2"}
FIELD_MEMBER_IDS == {"M1"}
FIELD_TITLES == {"Dune", "Emma"}
FIELD_AUTHORS == {"Herbert", "Austen"}
FIELD_GENRE_INPUTS == {"Fiction", "Sci-Fi", "InvalidGenre"}
FIELD_NAMES == {"Ann", "Bob"}

\* The borrowing limit of borrow_book.
BORROW_LIMIT == 3

\* Library.genres
genres == {"Fiction", "Non-Fiction", "Sci-Fi", "Mystery", "Biography",
           "Romance", "Thriller", "History"}

(***************************************************************************)
(* Member._is_valid_email: re.match of                                     *)
(*   ^[a-zA-Z0-9._%+-]+@[a-zA-Z0-9.-]+\.[a-zA-Z]{2,}$                      *)
(* An email is a sequence of one-character strings.                        *)
(***************************************************************************)
ALPHA == {"a", "b", "c", "o", "m", "A", "Z"}
DIGIT == {"0", "1"}
LOCAL_CHARS == ALPHA \cup DIGIT \cup {".", "_", "%", "+", "-"}
DOMAIN_CHARS == ALPHA \cup DIGIT \cup {".", "-"}

AllIn(s, lo, hi, cls) == \A k \in lo..hi : s[k] \in cls

\* `$` matches at the end of the string and also just before a final newline.
MatchesBody(s, n) ==
    \E at \in 2..n :
        /\ s[at] = "@"
        /\ AllIn(s, 1, at - 1, LOCAL_CHARS)
        /\ \E dot \in (at + 2)..n :
              /\ s[dot] = "."
              /\ AllIn(s, at + 1, dot - 1, DOMAIN_CHARS)
              /\ n - dot >= 2
              /\ AllIn(s, dot + 1, n, ALPHA)

_is_valid_email(email) ==
    \/ MatchesBody(email, Len(email))
    \/ /\ Len(email) >= 1
       /\ email[Len(email)] = "\n"
       /\ MatchesBody(email, Len(email) - 1)

\* a@b.co is valid; a@b.c is not (the last label has one letter)
EMAILS == { <<"a", "@", "b", ".", "c", "o">>,
            <<"a", "@", "b", ".", "c">> }

\* two valid addresses and an invalid one
FIELD_EMAILS == { <<"a", "@", "b", ".", "c", "o">>,
                  <<"b", "@", "b", ".", "c", "o">>,
                  <<"a", "@", "b", ".", "c">> }

(***************************************************************************)
(* Sequence helpers standing for the Python list and dict operations.      *)
(***************************************************************************)
\* x in list
Contains(s, x) == \E k \in 1..Len(s) : s[k] = x

\* index of the first element equal to x (list.index); 0 when absent
IndexOf(s, x) ==
    IF Contains(s, x) THEN CHOOSE k \in 1..Len(s) : s[k] = x /\ \A j \in 1..(k - 1) : s[j] # x
    ELSE 0

\* the list without its element at index k
RemoveAt(s, k) == [j \in 1..(Len(s) - 1) |-> IF j < k THEN s[j] ELSE s[j + 1]]

\* list.remove(x): drops the first occurrence
ListRemove(s, x) == RemoveAt(s, IndexOf(s, x))

\* isbn in self.books
HasBook(bs, isbn) == \E k \in 1..Len(bs) : bs[k].isbn = isbn

\* position of the key isbn in the dict's insertion order; 0 when absent
BookIndex(bs, isbn) ==
    IF HasBook(bs, isbn) THEN CHOOSE k \in 1..Len(bs) : bs[k].isbn = isbn ELSE 0

\* self.books[isbn]
GetBook(bs, isbn) == bs[BookIndex(bs, isbn)]

\* Library._find_member_by_id: index of the first member with that id, 0 for None
_find_member_by_id(ms, member_id) ==
    IF \E k \in 1..Len(ms) : ms[k].member_id = member_id
    THEN CHOOSE k \in 1..Len(ms) :
            /\ ms[k].member_id = member_id
            /\ \A j \in 1..(k - 1) : ms[j].member_id # member_id
    ELSE 0

\* Book.__init__ (the caller has checked total_copies > 0)
Book(isbn, title, author, genre, total_copies) ==
    [isbn |-> isbn, title |-> title, author |-> author, genre |-> genre,
     total_copies |-> total_copies, available_copies |-> total_copies]

\* Member.__init__ (the caller has checked the email)
Member(member_id, name, email) ==
    [member_id |-> member_id, name |-> name, email |-> email,
     borrowed_books |-> <<>>]

\* The value a call leaves behind: the library and the call's outcome.
Outcome(bs, ms, result) == [books |-> bs, members |-> ms, result |-> result]

(***************************************************************************)
(* The operations of Library.  lib is [books |-> ..., members |-> ...].    *)
(***************************************************************************)

\* Mutant: a new total equal to the borrowed count is refused too.
BelowBorrowed_rejects_equal(new_total, borrowed_count) == new_total <= borrowed_count

\* Mutant: the check against the borrowed count is missing.
BelowBorrowed_unchecked(new_total, borrowed_count) == FALSE

\* update_book: `if new_total < borrowed_count` (a raise follows)
BelowBorrowed(new_total, borrowed_count) == new_total < borrowed_count

\* Mutant: every copy is counted as available again.
RecomputedAvailable_forgets_loans(new_total, borrowed_count) == new_total

\* update_book: `book.available_copies = new_total - borrowed_count`
RecomputedAvailable(new_total, borrowed_count) == new_total - borrowed_count

\* Mutant: available_copies is compared with 0, so a book with a copy in
\* counts as lent.
CopiesOut_when_any_in(book) == book.available_copies # 0

\* Mutant: a book counts as lent only when no copy is in.
CopiesOut_only_when_none_in(book) == book.available_copies = 0

\* Mutant: a book is deleted whether or not copies are out.
CopiesOut_unchecked(book) == FALSE

\* delete_book: `if book.available_copies != book.total_copies` (a raise follows)
CopiesOut(book) == book.available_copies # book.total_copies

\* Mutant: the limit is compared with > instead of >=.
AtLimit_off_by_one(member) == Len(member.borrowed_books) > BORROW_LIMIT

\* borrow_book: `if len(member.borrowed_books) >= 3` (a raise follows)
AtLimit(member) == Len(member.borrowed_books) >= BORROW_LIMIT

\* Mutant: the counter is lowered but the isbn is not appended.
Lend_without_listing(lib, at, bat, isbn) ==
    Outcome(
      [lib.books EXCEPT ![bat].available_copies = lib.books[bat].available_copies - 1],
      lib.members,
      "ok")

\* Mutant: the isbn is appended but the counter is not lowered.
Lend_without_counting(lib, at, bat, isbn) ==
    Outcome(
      lib.books,
      [lib.members EXCEPT ![at].borrowed_books = Append(lib.members[at].borrowed_books, isbn)],
      "ok")

\* Mutant: the isbn is inserted at the front of the list.
Lend_at_front(lib, at, bat, isbn) ==
    Outcome(
      [lib.books EXCEPT ![bat].available_copies = lib.books[bat].available_copies - 1],
      [lib.members EXCEPT ![at].borrowed_books = <<isbn>> \o lib.members[at].borrowed_books],
      "ok")

\* borrow_book: `member.borrowed_books.append(isbn)` and
\* `book.available_copies -= 1`, for the member at index at and the book at
\* index bat
Lend(lib, at, bat, isbn) ==
    Outcome(
      [lib.books EXCEPT ![bat].available_copies = lib.books[bat].available_copies - 1],
      [lib.members EXCEPT ![at].borrowed_books = Append(lib.members[at].borrowed_books, isbn)],
      "ok")

\* Mutant: the copy is not counted as available again.
TakeBack_keeps_count(lib, at, bat, isbn) ==
    Outcome(
      lib.books,
      [lib.members EXCEPT ![at].borrowed_books = ListRemove(lib.members[at].borrowed_books, isbn)],
      "ok")

\* Mutant: the oldest loan is dropped (pop(0)) instead of the returned isbn.
TakeBack_pops_first(lib, at, bat, isbn) ==
    Outcome(
      [lib.books EXCEPT ![bat].available_copies = lib.books[bat].available_copies + 1],
      [lib.members EXCEPT ![at].borrowed_books = Tail(lib.members[at].borrowed_books)],
      "ok")

\* return_book: `member.borrowed_books.remove(isbn)` and
\* `self.books[isbn].available_copies += 1`
TakeBack(lib, at, bat, isbn) ==
    Outcome(
      [lib.books EXCEPT ![bat].available_copies = lib.books[bat].available_copies + 1],
      [lib.members EXCEPT ![at].borrowed_books = ListRemove(lib.members[at].borrowed_books, isbn)],
      "ok")

\* Mutant: the isbn is not looked up first, so self.books[isbn] = book replaces
\* the entry of a book already in the catalog.
add_book_overwrites(lib, isbn, title, author, genre, total_copies) ==
    IF genre \notin genres
    THEN Outcome(lib.books, lib.members, "InvalidArgument:genre")
    ELSE IF total_copies <= 0
    THEN Outcome(lib.books, lib.members, "InvalidArgument:total_copies")
    ELSE IF HasBook(lib.books, isbn)
    THEN Outcome([lib.books EXCEPT ![BookIndex(lib.books, isbn)] =
                      Book(isbn, title, author, genre, total_copies)],
                 lib.members, "ok")
    ELSE Outcome(Append(lib.books, Book(isbn, title, author, genre, total_copies)),
                 lib.members, "ok")

\* Library.add_book
add_book(lib, isbn, title, author, genre, total_copies) ==
    IF HasBook(lib.books, isbn)
    THEN Outcome(lib.books, lib.members, "DuplicateKey")
    ELSE IF genre \notin genres
    THEN Outcome(lib.books, lib.members, "InvalidArgument:genre")
    ELSE IF total_copies <= 0
    THEN Outcome(lib.books, lib.members, "InvalidArgument:total_copies")
    ELSE Outcome(Append(lib.books, Book(isbn, title, author, genre, total_copies)),
                 lib.members, "ok")

\* Mutant: the member is inserted at the front of self.members.
add_member_prepends(lib, member_id, name, email) ==
    IF \E k \in 1..Len(lib.members) : lib.members[k].member_id = member_id
    THEN Outcome(lib.books, lib.members, "DuplicateKey")
    ELSE IF ~_is_valid_email(email)
    THEN Outcome(lib.books, lib.members, "InvalidArgument:email")
    ELSE Outcome(lib.books, <<Member(member_id, name, email)>> \o lib.members, "ok")

\* Mutant: the member_id is not looked up before the member is appended.
add_member_appends_duplicate(lib, member_id, name, email) ==
    IF ~_is_valid_email(email)
    THEN Outcome(lib.books, lib.members, "InvalidArgument:email")
    ELSE Outcome(lib.books, Append(lib.members, Member(member_id, name, email)), "ok")

\* Library.add_member
add_member(lib, member_id, name, email) ==
    IF \E k \in 1..Len(lib.members) : lib.members[k].member_id = member_id
    THEN Outcome(lib.books, lib.members, "DuplicateKey")
    ELSE IF ~_is_valid_email(email)
    THEN Outcome(lib.books, lib.members, "InvalidArgument:email")
    ELSE Outcome(lib.books, Append(lib.members, Member(member_id, name, email)), "ok")

\* Mutant: the author is read with kwargs.get('author'), so a call that does
\* not supply it stores None.
update_book_defaults_author(lib, isbn, kwargs) ==
    IF ~HasBook(lib.books, isbn)
    THEN Outcome(lib.books, lib.members, "NotFound:book")
    ELSE
      LET at == BookIndex(lib.books, isbn)
          b0 == lib.books[at]
          b1 == IF "title" \in DOMAIN kwargs
                THEN [b0 EXCEPT !.title = kwargs["title"]] ELSE b0
          b2 == IF "author" \in DOMAIN kwargs
                THEN [b1 EXCEPT !.author = kwargs["author"]]
                ELSE [b1 EXCEPT !.author = "None"]
          b3 == IF "genre" \in DOMAIN kwargs
                THEN [b2 EXCEPT !.genre = kwargs["genre"]] ELSE b2
          borrowed_count == b3.total_copies - b3.available_copies
          b4 == IF "total_copies" \in DOMAIN kwargs
                THEN [b3 EXCEPT !.total_copies = kwargs["total_copies"],
                                !.available_copies =
                                    RecomputedAvailable(kwargs["total_copies"], borrowed_count)]
                ELSE b3
          Put(b) == [lib.books EXCEPT ![at] = b]
      IN  IF "genre" \in DOMAIN kwargs /\ kwargs["genre"] \notin genres
          THEN Outcome(Put(b2), lib.members, "InvalidArgument:genre")
          ELSE IF "total_copies" \in DOMAIN kwargs /\ kwargs["total_copies"] <= 0
          THEN Outcome(Put(b3), lib.members, "InvalidArgument:total_copies")
          ELSE IF "total_copies" \in DOMAIN kwargs
                  /\ BelowBorrowed(kwargs["total_copies"], borrowed_count)
          THEN Outcome(Put(b3), lib.members, "InvalidArgument:below_borrowed")
          ELSE Outcome(Put(b4), lib.members, "ok")

\* Mutant: total_copies is compared with the borrowed count only, not with 0.
update_book_accepts_zero(lib, isbn, kwargs) ==
    IF ~HasBook(lib.books, isbn)
    THEN Outcome(lib.books, lib.members, "NotFound:book")
    ELSE
      LET at == BookIndex(lib.books, isbn)
          b0 == lib.books[at]
          b1 == IF "title" \in DOMAIN kwargs
                THEN [b0 EXCEPT !.title = kwargs["title"]] ELSE b0
          b2 == IF "author" \in DOMAIN kwargs
                THEN [b1 EXCEPT !.author = kwargs["author"]] ELSE b1
          b3 == IF "genre" \in DOMAIN kwargs
                THEN [b2 EXCEPT !.genre = kwargs["genre"]] ELSE b2
          borrowed_count == b3.total_copies - b3.available_copies
          b4 == IF "total_copies" \in DOMAIN kwargs
                THEN [b3 EXCEPT !.total_copies = kwargs["total_copies"],
                                !.available_copies =
                                    RecomputedAvailable(kwargs["total_copies"], borrowed_count)]
                ELSE b3
          Put(b) == [lib.books EXCEPT ![at] = b]
      IN  IF "genre" \in DOMAIN kwargs /\ kwargs["genre"] \notin genres
          THEN Outcome(Put(b2), lib.members, "InvalidArgument:genre")
          ELSE IF "total_copies" \in DOMAIN kwargs
                  /\ BelowBorrowed(kwargs["total_copies"], borrowed_count)
          THEN Outcome(Put(b3), lib.members, "InvalidArgument:below_borrowed")
          ELSE Outcome(Put(b4), lib.members, "ok")

\* Library.update_book; kwargs is a function from the supplied keywords to
\* their values.  The assignments happen in the order of the code, so a raise
\* keeps the assignments made before it.
update_book(lib, isbn, kwargs) ==
    IF ~HasBook(lib.books, isbn)
    THEN Outcome(lib.books, lib.members, "NotFound:book")
    ELSE
      LET at == BookIndex(lib.books, isbn)
          b0 == lib.books[at]
          b1 == IF "title" \in DOMAIN kwargs
                THEN [b0 EXCEPT !.title = kwargs["title"]] ELSE b0
          b2 == IF "author" \in DOMAIN kwargs
                THEN [b1 EXCEPT !.author = kwargs["author"]] ELSE b1
          b3 == IF "genre" \in DOMAIN kwargs
                THEN [b2 EXCEPT !.genre = kwargs["genre"]] ELSE b2
          borrowed_count == b3.total_copies - b3.available_copies
          b4 == IF "total_copies" \in DOMAIN kwargs
                THEN [b3 EXCEPT !.total_copies = kwargs["total_copies"],
                                !.available_copies =
                                    RecomputedAvailable(kwargs["total_copies"], borrowed_count)]
                ELSE b3
          Put(b) == [lib.books EXCEPT ![at] = b]
      IN  IF "genre" \in DOMAIN kwargs /\ kwargs["genre"] \notin genres
          THEN Outcome(Put(b2), lib.members, "InvalidArgument:genre")
          ELSE IF "total_copies" \in DOMAIN kwargs /\ kwargs["total_copies"] <= 0
          THEN Outcome(Put(b3), lib.members, "InvalidArgument:total_copies")
          ELSE IF "total_copies" \in DOMAIN kwargs
                  /\ BelowBorrowed(kwargs["total_copies"], borrowed_count)
          THEN Outcome(Put(b3), lib.members, "InvalidArgument:below_borrowed")
          ELSE Outcome(Put(b4), lib.members, "ok")

\* Mutant: every supplied keyword is assigned to the member, borrowed_books
\* included.
update_member_sets_any_field(lib, member_id, kwargs) ==
    LET at == _find_member_by_id(lib.members, member_id) IN
    IF at = 0
    THEN Outcome(lib.books, lib.members, "NotFound:member")
    ELSE
      LET m0 == lib.members[at]
          m1 == IF "name" \in DOMAIN kwargs
                THEN [m0 EXCEPT !.name = kwargs["name"]] ELSE m0
          m2 == IF "email" \in DOMAIN kwargs
                THEN [m1 EXCEPT !.email = kwargs["email"]] ELSE m1
          m3 == IF "borrowed_books" \in DOMAIN kwargs
                THEN [m2 EXCEPT !.borrowed_books = kwargs["borrowed_books"]] ELSE m2
          Put(m) == [lib.members EXCEPT ![at] = m]
      IN  IF "email" \in DOMAIN kwargs /\ ~_is_valid_email(kwargs["email"])
          THEN Outcome(lib.books, Put(m1), "InvalidArgument:email")
          ELSE Outcome(lib.books, Put(m3), "ok")

\* Library.update_member; a keyword other than name and email is ignored.
update_member(lib, member_id, kwargs) ==
    LET at == _find_member_by_id(lib.members, member_id) IN
    IF at = 0
    THEN Outcome(lib.books, lib.members, "NotFound:member")
    ELSE
      LET m0 == lib.members[at]
          m1 == IF "name" \in DOMAIN kwargs
                THEN [m0 EXCEPT !.name = kwargs["name"]] ELSE m0
          m2 == IF "email" \in DOMAIN kwargs
                THEN [m1 EXCEPT !.email = kwargs["email"]] ELSE m1
          Put(m) == [lib.members EXCEPT ![at] = m]
      IN  IF "email" \in DOMAIN kwargs /\ ~_is_valid_email(kwargs["email"])
          THEN Outcome(lib.books, Put(m1), "InvalidArgument:email")
          ELSE Outcome(lib.books, Put(m2), "ok")

\* Mutant: the book is deleted without looking at its counters.
delete_book_unguarded(lib, isbn) ==
    IF ~HasBook(lib.books, isbn)
    THEN Outcome(lib.books, lib.members, "NotFound:book")
    ELSE Outcome(RemoveAt(lib.books, BookIndex(lib.books, isbn)), lib.members, "ok")

\* Library.delete_book
delete_book(lib, isbn) ==
    IF ~HasBook(lib.books, isbn)
    THEN Outcome(lib.books, lib.members, "NotFound:book")
    ELSE
      LET book == GetBook(lib.books, isbn) IN
      IF CopiesOut(book)
      THEN Outcome(lib.books, lib.members, "Conflict")
      ELSE Outcome(RemoveAt(lib.books, BookIndex(lib.books, isbn)), lib.members, "ok")

\* Mutant: the check of member.borrowed_books is missing.
delete_member_ignores_loans(lib, member_id) ==
    LET at == _find_member_by_id(lib.members, member_id) IN
    IF at = 0
    THEN Outcome(lib.books, lib.members, "NotFound:member")
    ELSE Outcome(lib.books, RemoveAt(lib.members, at), "ok")

\* Library.delete_member
delete_member(lib, member_id) ==
    LET at == _find_member_by_id(lib.members, member_id) IN
    IF at = 0
    THEN Outcome(lib.books, lib.members, "NotFound:member")
    ELSE IF lib.members[at].borrowed_books # <<>>
    THEN Outcome(lib.books, lib.members, "Conflict")
    ELSE Outcome(lib.books, RemoveAt(lib.members, at), "ok")

\* Mutant: the availability check uses < instead of <=, so a book with no
\* copy in is still lent.
borrow_book_lends_without_stock(lib, member_id, isbn) ==
    LET at == _find_member_by_id(lib.members, member_id) IN
    IF at = 0
    THEN Outcome(lib.books, lib.members, "NotFound:member")
    ELSE IF ~HasBook(lib.books, isbn)
    THEN Outcome(lib.books, lib.members, "NotFound:book")
    ELSE
      LET member == lib.members[at]
          bat == BookIndex(lib.books, isbn)
          book == lib.books[bat]
      IN  IF AtLimit(member)
          THEN Outcome(lib.books, lib.members, "LimitExceeded")
          ELSE IF book.available_copies < 0
          THEN Outcome(lib.books, lib.members, "Unavailable")
          ELSE IF Contains(member.borrowed_books, isbn)
          THEN Outcome(lib.books, lib.members, "AlreadyHeld")
          ELSE Lend(lib, at, bat, isbn)

\* Mutant: the availability check comes before the limit check.
borrow_book_availability_first(lib, member_id, isbn) ==
    LET at == _find_member_by_id(lib.members, member_id) IN
    IF at = 0
    THEN Outcome(lib.books, lib.members, "NotFound:member")
    ELSE IF ~HasBook(lib.books, isbn)
    THEN Outcome(lib.books, lib.members, "NotFound:book")
    ELSE
      LET member == lib.members[at]
          bat == BookIndex(lib.books, isbn)
          book == lib.books[bat]
      IN  IF book.available_copies <= 0
          THEN Outcome(lib.books, lib.members, "Unavailable")
          ELSE IF AtLimit(member)
          THEN Outcome(lib.books, lib.members, "LimitExceeded")
          ELSE IF Contains(member.borrowed_books, isbn)
          THEN Outcome(lib.books, lib.members, "AlreadyHeld")
          ELSE Lend(lib, at, bat, isbn)

\* Mutant: the member's borrowed_books is not searched for the isbn, so a
\* member can be lent a second copy of a book.
borrow_book_lends_again(lib, member_id, isbn) ==
    LET at == _find_member_by_id(lib.members, member_id) IN
    IF at = 0
    THEN Outcome(lib.books, lib.members, "NotFound:member")
    ELSE IF ~HasBook(lib.books, isbn)
    THEN Outcome(lib.books, lib.members, "NotFound:book")
    ELSE
      LET member == lib.members[at]
          bat == BookIndex(lib.books, isbn)
          book == lib.books[bat]
      IN  IF AtLimit(member)
          THEN Outcome(lib.books, lib.members, "LimitExceeded")
          ELSE IF book.available_copies <= 0
          THEN Outcome(lib.books, lib.members, "Unavailable")
          ELSE Lend(lib, at, bat, isbn)

\* Library.borrow_book
borrow_book(lib, member_id, isbn) ==
    LET at == _find_member_by_id(lib.members, member_id) IN
    IF at = 0
    THEN Outcome(lib.books, lib.members, "NotFound:member")
    ELSE IF ~HasBook(lib.books, isbn)
    THEN Outcome(lib.books, lib.members, "NotFound:book")
    ELSE
      LET member == lib.members[at]
          bat == BookIndex(lib.books, isbn)
          book == lib.books[bat]
      IN  IF AtLimit(member)
          THEN Outcome(lib.books, lib.members, "LimitExceeded")
          ELSE IF book.available_copies <= 0
          THEN Outcome(lib.books, lib.members, "Unavailable")
          ELSE IF Contains(member.borrowed_books, isbn)
          THEN Outcome(lib.books, lib.members, "AlreadyHeld")
          ELSE Lend(lib, at, bat, isbn)

\* Mutant: the copy is counted as available before the member's list is
\* looked at, so the NotHeld exit leaves the counter raised.
return_book_counts_early(lib, member_id, isbn) ==
    LET at == _find_member_by_id(lib.members, member_id) IN
    IF at = 0
    THEN Outcome(lib.books, lib.members, "NotFound:member")
    ELSE IF ~HasBook(lib.books, isbn)
    THEN Outcome(lib.books, lib.members, "NotFound:book")
    ELSE
      LET member == lib.members[at]
          bat == BookIndex(lib.books, isbn)
      IN  IF ~Contains(member.borrowed_books, isbn)
          THEN Outcome(
                 [lib.books EXCEPT ![bat].available_copies = lib.books[bat].available_copies + 1],
                 lib.members, "NotHeld")
          ELSE TakeBack(lib, at, bat, isbn)

\* Library.return_book
return_book(lib, member_id, isbn) ==
    LET at == _find_member_by_id(lib.members, member_id) IN
    IF at = 0
    THEN Outcome(lib.books, lib.members, "NotFound:member")
    ELSE IF ~HasBook(lib.books, isbn)
    THEN Outcome(lib.books, lib.members, "NotFound:book")
    ELSE
      LET member == lib.members[at]
          bat == BookIndex(lib.books, isbn)
      IN  IF ~Contains(member.borrowed_books, isbn)
          THEN Outcome(lib.books, lib.members, "NotHeld")
          ELSE TakeBack(lib, at, bat, isbn)

(***************************************************************************)
(* The state machine: one action per public mutating operation, its        *)
(* arguments drawn from the given input sets.                              *)
(***************************************************************************)
Lib == [books |-> books, members |-> members]

\* One keyword of a call: left out (the empty dictionary) or given a value.
Opt(key, values) == {<<>>} \cup { key :> v : v \in values }

\* the keyword dictionaries passed to update_book
BookKwargs(titles) ==
    { t @@ a @@ g @@ c : t \in Opt("title", titles), a \in Opt("author", AUTHORS),
                         g \in Opt("genre", GENRE_INPUTS),
                         c \in Opt("total_copies", COPY_INPUTS) }

\* the keyword dictionaries passed to update_member
MemberKwargs(names) ==
    { n @@ e @@ b : n \in Opt("name", names), e \in Opt("email", EMAILS),
                    b \in Opt("borrowed_books", {<<>>}) }

BOOK_KWARGS == BookKwargs(TITLES)
MEMBER_KWARGS == MemberKwargs(NAMES)
LIMIT_BOOK_KWARGS == BookKwargs(LIMIT_TITLES)
LIMIT_MEMBER_KWARGS == MemberKwargs(LIMIT_NAMES)

\* the callers of the library and a caller that is in no call
CALLERS == {"c1", "c2"}
IDLE == [pc |-> "idle", op |-> "none", member_id |-> "none", isbn |-> "none"]

\* a call that runs from its first line to its return or raise in one step
Apply(out) ==
    /\ books' = out.books
    /\ members' = out.members
    /\ UNCHANGED <<calls, locked>>

Init ==
    /\ books = <<>>
    /\ members = <<>>
    /\ calls = [c \in CALLERS |-> IDLE]
    /\ locked = TRUE

AddBook(isbns, titles) ==
    \E isbn \in isbns, title \in titles, author \in AUTHORS,
       genre \in GENRE_INPUTS, total_copies \in COPY_INPUTS :
        Apply(add_book(Lib, isbn, title, author, genre, total_copies))

AddMember(ids, names) ==
    \E member_id \in ids, name \in names, email \in EMAILS :
        Apply(add_member(Lib, member_id, name, email))

UpdateBook(isbns, book_kwargs) ==
    \E isbn \in isbns, kwargs \in book_kwargs :
        Apply(update_book(Lib, isbn, kwargs))

UpdateMember(ids, member_kwargs) ==
    \E member_id \in ids, kwargs \in member_kwargs :
        Apply(update_member(Lib, member_id, kwargs))

DeleteBook(isbns) ==
    \E isbn \in isbns :
        Apply(delete_book(Lib, isbn))

DeleteMember(ids) ==
    \E member_id \in ids :
        Apply(delete_member(Lib, member_id))

BorrowBook(ids, isbns) ==
    \E member_id \in ids, isbn \in isbns :
        Apply(borrow_book(Lib, member_id, isbn))

ReturnBook(ids, isbns) ==
    \E member_id \in ids, isbn \in isbns :
        Apply(return_book(Lib, member_id, isbn))

Next ==
    \/ AddBook(ISBNS, TITLES)
    \/ AddMember(MEMBER_IDS, NAMES)
    \/ UpdateBook(ISBNS, BOOK_KWARGS)
    \/ UpdateMember(MEMBER_IDS, MEMBER_KWARGS)
    \/ DeleteBook(ISBNS)
    \/ DeleteMember(MEMBER_IDS)
    \/ BorrowBook(MEMBER_IDS, ISBNS)
    \/ ReturnBook(MEMBER_IDS, ISBNS)

Spec == Init /\ [][Next]_vars

NextLimit ==
    \/ AddBook(LIMIT_ISBNS, LIMIT_TITLES)
    \/ AddMember(LIMIT_MEMBER_IDS, LIMIT_NAMES)
    \/ UpdateBook(LIMIT_ISBNS, LIMIT_BOOK_KWARGS)
    \/ UpdateMember(LIMIT_MEMBER_IDS, LIMIT_MEMBER_KWARGS)
    \/ DeleteBook(LIMIT_ISBNS)
    \/ DeleteMember(LIMIT_MEMBER_IDS)
    \/ BorrowBook(LIMIT_MEMBER_IDS, LIMIT_ISBNS)
    \/ ReturnBook(LIMIT_MEMBER_IDS, LIMIT_ISBNS)

SpecLimit == Init /\ [][NextLimit]_vars

FIELD_BOOK_KWARGS ==
    { t @@ a @@ g @@ c : t \in Opt("title", FIELD_TITLES),
                         a \in Opt("author", FIELD_AUTHORS),
                         g \in Opt("genre", FIELD_GENRE_INPUTS),
                         c \in Opt("total_copies", COPY_INPUTS) }

FIELD_MEMBER_KWARGS ==
    { n @@ e @@ b : n \in Opt("name", FIELD_NAMES), e \in Opt("email", FIELD_EMAILS),
                    b \in Opt("borrowed_books", {<<>>}) }

AddBookFields ==
    \E isbn \in FIELD_ISBNS, title \in FIELD_TITLES, author \in FIELD_AUTHORS,
       genre \in FIELD_GENRE_INPUTS, total_copies \in COPY_INPUTS :
        Apply(add_book(Lib, isbn, title, author, genre, total_copies))

AddMemberFields ==
    \E member_id \in FIELD_MEMBER_IDS, name \in FIELD_NAMES, email \in FIELD_EMAILS :
        Apply(add_member(Lib, member_id, name, email))

NextFields ==
    \/ AddBookFields
    \/ AddMemberFields
    \/ UpdateBook(FIELD_ISBNS, FIELD_BOOK_KWARGS)
    \/ UpdateMember(FIELD_MEMBER_IDS, FIELD_MEMBER_KWARGS)
    \/ DeleteBook(FIELD_ISBNS)
    \/ DeleteMember(FIELD_MEMBER_IDS)
    \/ BorrowBook(FIELD_MEMBER_IDS, FIELD_ISBNS)
    \/ ReturnBook(FIELD_MEMBER_IDS, FIELD_ISBNS)

SpecFields == Init /\ [][NextFields]_vars

(***************************************************************************)
(* Vocabulary of the properties.                                           *)
(***************************************************************************)
ALL_ISBNS == ISBNS \cup LIMIT_ISBNS
ALL_MEMBER_IDS == MEMBER_IDS \cup LIMIT_MEMBER_IDS

\* the members (as indices) whose borrowed_books contains isbn
Holders(ms, isbn) == { j \in 1..Len(ms) : Contains(ms[j].borrowed_books, isbn) }

\* the member with this id is in the collection
HasMember(ms, member_id) == \E j \in 1..Len(ms) : ms[j].member_id = member_id

\* the member with this id (the first one, as _find_member_by_id)
GetMember(ms, member_id) == ms[_find_member_by_id(ms, member_id)]

\* C1: for every book in the catalog, total_copies - available_copies is the
\* number of members whose borrowed_books contains the book's isbn.
CrossConsistency ==
    \A k \in 1..Len(books) :
        books[k].total_copies - books[k].available_copies
            = Cardinality(Holders(members, books[k].isbn))

\* C1 witness: both copies of a two-copy book are out, each with another
\* member.
CrossConsistencyWitness ==
    \E k \in 1..Len(books) :
        /\ books[k].total_copies = 2
        /\ books[k].available_copies = 0
        /\ Cardinality(Holders(members, books[k].isbn)) = 2

\* C2: every book satisfies 0 <= available_copies <= total_copies.
AvailabilityInvariant ==
    \A k \in 1..Len(books) :
        /\ 0 <= books[k].available_copies
        /\ books[k].available_copies <= books[k].total_copies

\* C2 witness: both ends of the range are met at once: one book with no copy
\* left and another with every copy in.
AvailabilityWitness ==
    \E k, j \in 1..Len(books) :
        /\ books[k].available_copies = 0
        /\ books[j].available_copies = books[j].total_copies
        /\ Holders(members, books[k].isbn) # {}

\* Every member has at most three books.
BorrowingLimit == \A j \in 1..Len(members) : Len(members[j].borrowed_books) <= 3

\* C3 as stated: every member has len(borrowed_books) <= 3, and any
\* borrow_book call by a member who holds 3 books fails with LimitExceeded and
\* leaves the member's list at length 3 without the requested isbn.
BorrowingLimitAsStated ==
    /\ BorrowingLimit
    /\ \A member_id \in ALL_MEMBER_IDS, isbn \in ALL_ISBNS :
          (/\ HasMember(members, member_id)
           /\ Len(GetMember(members, member_id).borrowed_books) = 3)
          => LET r == borrow_book(Lib, member_id, isbn)
                 after == GetMember(r.members, member_id).borrowed_books
             IN  /\ r.result = "LimitExceeded"
                 /\ Len(after) = 3
                 /\ ~Contains(after, isbn)

\* C3 amended: every member has len(borrowed_books) <= 3, and a borrow_book
\* call for a book of the catalog by a member who holds 3 books fails with
\* LimitExceeded and leaves the library as it was, so the member's list keeps
\* its 3 entries and holds the requested isbn only if it did before.
BorrowingLimitInvariant ==
    /\ BorrowingLimit
    /\ \A member_id \in ALL_MEMBER_IDS, isbn \in ALL_ISBNS :
          (/\ HasMember(members, member_id)
           /\ Len(GetMember(members, member_id).borrowed_books) = 3
           /\ HasBook(books, isbn))
          => LET r == borrow_book(Lib, member_id, isbn)
                 before == GetMember(members, member_id).borrowed_books
                 after == GetMember(r.members, member_id).borrowed_books
             IN  /\ r.result = "LimitExceeded"
                 /\ after = before
                 /\ Len(after) = 3
                 /\ r.books = books
                 /\ r.members = members

\* C3 witness: a member holds three books and asks for a fourth book of the
\* catalog, which has a copy in.
BorrowingLimitWitness ==
    \E j \in 1..Len(members), k \in 1..Len(books) :
        /\ Len(members[j].borrowed_books) = 3
        /\ ~Contains(members[j].borrowed_books, books[k].isbn)
        /\ books[k].available_copies > 0
        /\ borrow_book(Lib, members[j].member_id, books[k].isbn).result = "LimitExceeded"

\* C4: every failing call of add_book, add_member, update_book,
\* update_member, delete_book, delete_member, borrow_book and return_book
\* leaves books and members as they were.
FailingCallsChangeNothing ==
    LET Same(r) == r.result # "ok" => (r.books = books /\ r.members = members)
    IN  /\ \A isbn \in ISBNS, title \in TITLES, author \in AUTHORS,
              genre \in GENRE_INPUTS, total_copies \in COPY_INPUTS :
               Same(add_book(Lib, isbn, title, author, genre, total_copies))
        /\ \A member_id \in MEMBER_IDS, name \in NAMES, email \in EMAILS :
               Same(add_member(Lib, member_id, name, email))
        /\ \A isbn \in ISBNS, kwargs \in BOOK_KWARGS :
               Same(update_book(Lib, isbn, kwargs))
        /\ \A member_id \in MEMBER_IDS, kwargs \in MEMBER_KWARGS :
               Same(update_member(Lib, member_id, kwargs))
        /\ \A isbn \in ISBNS : Same(delete_book(Lib, isbn))
        /\ \A member_id \in MEMBER_IDS : Same(delete_member(Lib, member_id))
        /\ \A member_id \in MEMBER_IDS, isbn \in ISBNS :
               /\ Same(borrow_book(Lib, member_id, isbn))
               /\ Same(return_book(Lib, member_id, isbn))

\* C5: every isbn in a member's borrowed_books is a key of books.
ReferentialIntegrity ==
    \A j \in 1..Len(members) :
        \A n \in 1..Len(members[j].borrowed_books) :
            HasBook(books, members[j].borrowed_books[n])

\* C5 witness: a member holds a book, delete_book of it is refused, and the
\* other isbn is free to be deleted and added again.
ReferentialIntegrityWitness ==
    \E j \in 1..Len(members), isbn \in ISBNS, other \in ISBNS :
        /\ Contains(members[j].borrowed_books, isbn)
        /\ delete_book(Lib, isbn).result = "Conflict"
        /\ other # isbn
        /\ ~HasBook(books, other)

\* C6: the outcome of borrow_book is decided by the first of these that
\* holds: the member is absent (NotFound), the book is absent (NotFound), the
\* member holds 3 books (LimitExceeded), available_copies is 0 (Unavailable),
\* the member already holds the isbn (AlreadyHeld); otherwise the call succeeds.
BorrowCheckOrder ==
    \A member_id \in ALL_MEMBER_IDS, isbn \in ALL_ISBNS :
        LET r == borrow_book(Lib, member_id, isbn).result IN
        IF ~HasMember(members, member_id) THEN r = "NotFound:member"
        ELSE IF ~HasBook(books, isbn) THEN r = "NotFound:book"
        ELSE IF Len(GetMember(members, member_id).borrowed_books) = 3
             THEN r = "LimitExceeded"
        ELSE IF GetBook(books, isbn).available_copies = 0 THEN r = "Unavailable"
        ELSE IF Contains(GetMember(members, member_id).borrowed_books, isbn)
             THEN r = "AlreadyHeld"
        ELSE r = "ok"

\* C6 witness: a member at the limit asks for a book with no copy in and gets
\* LimitExceeded, while another book of the catalog has a copy in.
BorrowCheckOrderWitness ==
    \E j \in 1..Len(members), k, n \in 1..Len(books) :
        /\ Len(members[j].borrowed_books) = 3
        /\ books[k].available_copies = 0
        /\ borrow_book(Lib, members[j].member_id, books[k].isbn).result = "LimitExceeded"
        /\ books[n].available_copies > 0

\* bs and cs are the same books except, possibly, the one with this isbn
SameBooksBut(bs, cs, isbn) ==
    /\ Len(cs) = Len(bs)
    /\ \A k \in 1..Len(bs) : bs[k].isbn # isbn => cs[k] = bs[k]

\* ms and ns are the same members except, possibly, the one with this id
SameMembersBut(ms, ns, member_id) ==
    /\ Len(ns) = Len(ms)
    /\ \A j \in 1..Len(ms) : ms[j].member_id # member_id => ns[j] = ms[j]

\* C7: a successful borrow_book(m, i) appends i at the end of m's
\* borrowed_books and lowers Book[i].available_copies by exactly 1, and changes
\* nothing else: not total_copies or another field of the book, not m's name,
\* email or id, no other book, no other member.  A call that does not succeed
\* makes neither of the two changes.
BorrowEffect ==
    \A member_id \in ALL_MEMBER_IDS, isbn \in ALL_ISBNS :
        LET r == borrow_book(Lib, member_id, isbn) IN
        IF r.result = "ok"
        THEN LET m == GetMember(members, member_id)
                 b == GetBook(books, isbn)
             IN  /\ GetMember(r.members, member_id)
                      = [m EXCEPT !.borrowed_books = Append(m.borrowed_books, isbn)]
                 /\ GetBook(r.books, isbn)
                      = [b EXCEPT !.available_copies = b.available_copies - 1]
                 /\ SameBooksBut(books, r.books, isbn)
                 /\ SameMembersBut(members, r.members, member_id)
        ELSE /\ HasMember(members, member_id)
                  => GetMember(r.members, member_id).borrowed_books
                       = GetMember(members, member_id).borrowed_books
             /\ HasBook(books, isbn)
                  => GetBook(r.books, isbn).available_copies
                       = GetBook(books, isbn).available_copies

\* C7 witness: a member has borrowed a second book after a first one: the
\* list has two entries, each of a book with a copy out, and the other member
\* holds a book too.
BorrowEffectWitness ==
    \E j, n \in 1..Len(members) :
        /\ j # n
        /\ Len(members[j].borrowed_books) = 2
        /\ Len(members[n].borrowed_books) = 1
        /\ \A k \in 1..Len(books) : books[k].available_copies < books[k].total_copies

\* C8: every error exit of borrow_book and of return_book leaves the member's
\* borrowed_books and the book's available_copies, and with them the whole
\* library, as they were.
LendingErrorsChangeNothing ==
    \A member_id \in ALL_MEMBER_IDS, isbn \in ALL_ISBNS :
        LET b == borrow_book(Lib, member_id, isbn)
            r == return_book(Lib, member_id, isbn)
        IN  /\ b.result # "ok" => (b.books = books /\ b.members = members)
            /\ r.result # "ok" => (r.books = books /\ r.members = members)
            /\ b.result \in {"ok", "NotFound:member", "NotFound:book", "LimitExceeded",
                             "Unavailable", "AlreadyHeld"}
            /\ r.result \in {"ok", "NotFound:member", "NotFound:book", "NotHeld"}

\* C8 witness: a member who holds three books asks for a fourth book of the
\* catalog (LimitExceeded) and tries to return it (NotHeld), while an id that
\* is no member's gets NotFound from both operations.
LendingErrorsWitness ==
    \E j \in 1..Len(members), k \in 1..Len(books), stranger \in ALL_MEMBER_IDS :
        LET member_id == members[j].member_id IN
        /\ borrow_book(Lib, member_id, books[k].isbn).result = "LimitExceeded"
        /\ return_book(Lib, member_id, books[k].isbn).result = "NotHeld"
        /\ borrow_book(Lib, stranger, books[k].isbn).result = "NotFound:member"
        /\ return_book(Lib, stranger, books[k].isbn).result = "NotFound:member"

\* C9: wherever borrow_book(m, i) succeeds, return_book(m, i) called right
\* after it succeeds too and gives back the library of before the borrow:
\* the same available_copies and the same borrowed_books in the same order.
BorrowReturnRoundTrip ==
    \A member_id \in ALL_MEMBER_IDS, isbn \in ALL_ISBNS :
        LET b == borrow_book(Lib, member_id, isbn) IN
        b.result = "ok" =>
            LET r == return_book([books |-> b.books, members |-> b.members],
                                 member_id, isbn)
            IN  /\ r.result = "ok"
                /\ GetBook(r.books, isbn).available_copies
                     = GetBook(books, isbn).available_copies
                /\ GetMember(r.members, member_id).borrowed_books
                     = GetMember(members, member_id).borrowed_books
                /\ r.books = books
                /\ r.members = members

\* C9 witness: a member who holds a book can borrow another one, so that the
\* round trip has an order of entries to restore.
BorrowReturnRoundTripWitness ==
    \E j \in 1..Len(members), isbn \in ISBNS :
        /\ Len(members[j].borrowed_books) = 1
        /\ borrow_book(Lib, members[j].member_id, isbn).result = "ok"
        /\ return_book(Lib, members[j].member_id, members[j].borrowed_books[1]).result = "ok"

\* C10: return_book(m, i) fails with NotFound if m is absent, else with
\* NotFound if i is absent, else with NotHeld if i is not in m's
\* borrowed_books; otherwise it takes i out of m's borrowed_books, keeping the
\* other entries in order, raises Book[i].available_copies by exactly 1 and
\* changes nothing else.
ReturnContract ==
    \A member_id \in ALL_MEMBER_IDS, isbn \in ALL_ISBNS :
        LET r == return_book(Lib, member_id, isbn) IN
        IF ~HasMember(members, member_id)
        THEN r.result = "NotFound:member" /\ r.books = books /\ r.members = members
        ELSE IF ~HasBook(books, isbn)
        THEN r.result = "NotFound:book" /\ r.books = books /\ r.members = members
        ELSE IF ~Contains(GetMember(members, member_id).borrowed_books, isbn)
        THEN r.result = "NotHeld" /\ r.books = books /\ r.members = members
        ELSE LET m == GetMember(members, member_id)
                 b == GetBook(books, isbn)
                 Others(x) == x # isbn
             IN  /\ r.result = "ok"
                 /\ GetMember(r.members, member_id)
                      = [m EXCEPT !.borrowed_books = SelectSeq(m.borrowed_books, Others)]
                 /\ GetBook(r.books, isbn)
                      = [b EXCEPT !.available_copies = b.available_copies + 1]
                 /\ SameBooksBut(books, r.books, isbn)
                 /\ SameMembersBut(members, r.members, member_id)

\* C10 witness: a member holds two books and can return the second of them,
\* while the other member holds none, so return_book of the same isbn by that
\* member ends in NotHeld.
ReturnContractWitness ==
    \E j, n \in 1..Len(members) :
        /\ Len(members[j].borrowed_books) = 2
        /\ members[n].borrowed_books = <<>>
        /\ return_book(Lib, members[j].member_id, members[j].borrowed_books[2]).result = "ok"
        /\ return_book(Lib, members[n].member_id, members[j].borrowed_books[2]).result = "NotHeld"

\* the library a call leaves behind
After(out) == [books |-> out.books, members |-> out.members]

\* C11: when a book has one copy in and two distinct members, each below the
\* limit and not holding it, call borrow_book for it one after the other, the
\* first call succeeds and leaves available_copies at 0 and the second fails
\* with Unavailable, changing nothing; and no book is held by more members
\* than it has copies.
LastCopyContention ==
    /\ \A k \in 1..Len(books) :
          Cardinality(Holders(members, books[k].isbn)) <= books[k].total_copies
    /\ \A first \in ALL_MEMBER_IDS, second \in ALL_MEMBER_IDS, isbn \in ALL_ISBNS :
          (/\ first # second
           /\ HasMember(members, first)
           /\ HasMember(members, second)
           /\ HasBook(books, isbn)
           /\ GetBook(books, isbn).available_copies = 1
           /\ Len(GetMember(members, first).borrowed_books) < 3
           /\ Len(GetMember(members, second).borrowed_books) < 3
           /\ ~Contains(GetMember(members, first).borrowed_books, isbn)
           /\ ~Contains(GetMember(members, second).borrowed_books, isbn))
          => LET b1 == borrow_book(Lib, first, isbn)
                 b2 == borrow_book(After(b1), second, isbn)
             IN  /\ b1.result = "ok"
                 /\ GetBook(b1.books, isbn).available_copies = 0
                 /\ Contains(GetMember(b1.members, first).borrowed_books, isbn)
                 /\ b2.result = "Unavailable"
                 /\ After(b2) = After(b1)

\* C11 witness: the state between the two calls: the only copy of a book is
\* out with one member, and the other member, who holds nothing, is refused
\* with Unavailable.
LastCopyContentionWitness ==
    \E j, n \in 1..Len(members), k \in 1..Len(books) :
        /\ j # n
        /\ books[k].total_copies = 1
        /\ books[k].available_copies = 0
        /\ Holders(members, books[k].isbn) = {j}
        /\ members[n].borrowed_books = <<>>
        /\ borrow_book(Lib, members[n].member_id, books[k].isbn).result = "Unavailable"

\* the library after every member holding isbn has returned it, in the order
\* of the member list
RECURSIVE ReturnAllOf(_, _)
ReturnAllOf(lib, isbn) ==
    IF Holders(lib.members, isbn) = {}
    THEN lib
    ELSE LET j == CHOOSE h \in Holders(lib.members, isbn) :
                      \A g \in Holders(lib.members, isbn) : h <= g
         IN  ReturnAllOf(After(return_book(lib, lib.members[j].member_id, isbn)), isbn)

\* the books of bs other than isbn, in their order
BooksWithout(bs, isbn) == LET Other(b) == b.isbn # isbn IN SelectSeq(bs, Other)

\* C12: delete_book(i) fails with NotFound if i is absent and with Conflict
\* if available_copies differs from total_copies, changing nothing; a book no
\* member holds is deleted, and a book that is out is deleted once every
\* holder has returned it: the book is gone, the other books and the members
\* stay.
DeleteBookContract ==
    \A isbn \in ALL_ISBNS :
        LET r == delete_book(Lib, isbn) IN
        IF ~HasBook(books, isbn)
        THEN r.result = "NotFound:book" /\ After(r) = Lib
        ELSE /\ Holders(members, isbn) = {} => r.result = "ok"
             /\ IF GetBook(books, isbn).available_copies # GetBook(books, isbn).total_copies
                THEN /\ r.result = "Conflict"
                     /\ After(r) = Lib
                     /\ LET cleared == ReturnAllOf(Lib, isbn)
                            d == delete_book(cleared, isbn)
                        IN  /\ d.result = "ok"
                            /\ ~HasBook(d.books, isbn)
                            /\ d.books = BooksWithout(cleared.books, isbn)
                            /\ d.members = cleared.members
                ELSE /\ r.result = "ok"
                     /\ ~HasBook(r.books, isbn)
                     /\ r.books = BooksWithout(books, isbn)
                     /\ r.members = members

\* C12 witness: a book is out with two members while another book is in the
\* catalog: delete_book is refused, and succeeds after both have returned it.
DeleteBookWitness ==
    \E isbn \in ISBNS :
        /\ Len(books) = 2
        /\ Cardinality(Holders(members, isbn)) = 2
        /\ delete_book(Lib, isbn).result = "Conflict"
        /\ delete_book(ReturnAllOf(Lib, isbn), isbn).result = "ok"

\* the library after the member has returned every book, oldest loan first
RECURSIVE ReturnAllBy(_, _)
ReturnAllBy(lib, member_id) ==
    IF GetMember(lib.members, member_id).borrowed_books = <<>>
    THEN lib
    ELSE ReturnAllBy(
           After(return_book(lib, member_id,
                             GetMember(lib.members, member_id).borrowed_books[1])),
           member_id)

\* the members of ms other than member_id, in their order
MembersWithout(ms, member_id) ==
    LET Other(m) == m.member_id # member_id IN SelectSeq(ms, Other)

\* C13: delete_member(m) fails with NotFound if m is absent and with Conflict
\* if m's borrowed_books is not empty, changing nothing; a member who holds
\* nothing is deleted, and a member who holds books is deleted once all of them
\* are returned: exactly that member is gone, the other members and the books
\* stay.
DeleteMemberContract ==
    \A member_id \in ALL_MEMBER_IDS :
        LET r == delete_member(Lib, member_id) IN
        IF ~HasMember(members, member_id)
        THEN r.result = "NotFound:member" /\ After(r) = Lib
        ELSE IF GetMember(members, member_id).borrowed_books # <<>>
        THEN /\ r.result = "Conflict"
             /\ After(r) = Lib
             /\ LET cleared == ReturnAllBy(Lib, member_id)
                    d == delete_member(cleared, member_id)
                IN  /\ d.result = "ok"
                    /\ ~HasMember(d.members, member_id)
                    /\ d.members = MembersWithout(cleared.members, member_id)
                    /\ d.books = cleared.books
        ELSE /\ r.result = "ok"
             /\ ~HasMember(r.members, member_id)
             /\ r.members = MembersWithout(members, member_id)
             /\ r.books = books

\* C13 witness: the first of two members holds two books: delete_member is
\* refused, and succeeds after both books are returned.
DeleteMemberWitness ==
    /\ Len(members) = 2
    /\ Len(members[1].borrowed_books) = 2
    /\ delete_member(Lib, members[1].member_id).result = "Conflict"
    /\ delete_member(ReturnAllBy(Lib, members[1].member_id), members[1].member_id).result = "ok"

\* the values tried for total_copies in update_book(i, total_copies=n)
NEW_TOTALS == (0 - 1)..(MaxCopies + 1)

\* C14 as stated: for a book of the catalog, update_book(i, total_copies=n)
\* fails with InvalidArgument if n < borrowed and otherwise succeeds with
\* total_copies = n and available_copies = n - borrowed.
UpdateTotalAsStated ==
    \A isbn \in ALL_ISBNS, n \in NEW_TOTALS :
        HasBook(books, isbn) =>
            LET b == GetBook(books, isbn)
                borrowed == b.total_copies - b.available_copies
                r == update_book(Lib, isbn, "total_copies" :> n)
            IN  IF n < borrowed
                THEN r.result \in {"InvalidArgument:total_copies",
                                   "InvalidArgument:below_borrowed"}
                ELSE /\ r.result = "ok"
                     /\ GetBook(r.books, isbn).total_copies = n
                     /\ GetBook(r.books, isbn).available_copies = n - borrowed

\* C14 amended: for a book of the catalog, update_book(i, total_copies=n)
\* fails with InvalidArgument if n <= 0 or n < borrowed and otherwise succeeds
\* with total_copies = n and available_copies = n - borrowed; n = borrowed
\* succeeds, with available_copies = 0, when borrowed > 0.
UpdateTotalContract ==
    \A isbn \in ALL_ISBNS, n \in NEW_TOTALS :
        HasBook(books, isbn) =>
            LET b == GetBook(books, isbn)
                borrowed == b.total_copies - b.available_copies
                r == update_book(Lib, isbn, "total_copies" :> n)
            IN  /\ IF n <= 0 \/ n < borrowed
                   THEN r.result \in {"InvalidArgument:total_copies",
                                      "InvalidArgument:below_borrowed"}
                   ELSE /\ r.result = "ok"
                        /\ GetBook(r.books, isbn).total_copies = n
                        /\ GetBook(r.books, isbn).available_copies = n - borrowed
                /\ (n = borrowed /\ borrowed > 0)
                     => (r.result = "ok" /\ GetBook(r.books, isbn).available_copies = 0)

\* C14 witness: both copies of a book are out: a new total of 1 is refused and
\* a new total of 2 is accepted and leaves no copy in; the other book was
\* brought down to the one copy that is out.
UpdateTotalWitness ==
    \E k \in 1..Len(books) :
        /\ books[k].total_copies = 2
        /\ books[k].available_copies = 0
        /\ update_book(Lib, books[k].isbn, "total_copies" :> 1).result
             = "InvalidArgument:below_borrowed"
        /\ update_book(Lib, books[k].isbn, "total_copies" :> 2).result = "ok"
        /\ \E j \in 1..Len(books) :
              /\ books[j].total_copies = 1
              /\ books[j].available_copies = 0

\* the field of record after is the supplied value if the keyword is
\* supplied, and the field of record before if it is not
SuppliedOrKept(kwargs, key, before, after) ==
    IF key \in DOMAIN kwargs THEN after[key] = kwargs[key] ELSE after[key] = before[key]

\* C15: a successful update_book changes only the fields supplied among
\* title, author, genre and total_copies: each of them takes the supplied value
\* if supplied and keeps its value if not, available_copies moves only with a
\* supplied total_copies, the isbn and the borrowed count (total_copies -
\* available_copies) stay, and no other book and no member changes.
UpdateBookFrame ==
    \A isbn \in FIELD_ISBNS, kwargs \in FIELD_BOOK_KWARGS :
        LET r == update_book(Lib, isbn, kwargs) IN
        r.result = "ok" =>
            LET b == GetBook(books, isbn)
                c == GetBook(r.books, isbn)
            IN  /\ c.isbn = b.isbn
                /\ SuppliedOrKept(kwargs, "title", b, c)
                /\ SuppliedOrKept(kwargs, "author", b, c)
                /\ SuppliedOrKept(kwargs, "genre", b, c)
                /\ SuppliedOrKept(kwargs, "total_copies", b, c)
                /\ "total_copies" \notin DOMAIN kwargs
                     => c.available_copies = b.available_copies
                /\ c.total_copies - c.available_copies
                     = b.total_copies - b.available_copies
                /\ SameBooksBut(books, r.books, isbn)
                /\ r.members = members

\* C15 witness: a book whose title, author and genre have all been replaced
\* has a copy out and stands beside another book; an update of its
\* total_copies alone succeeds.
UpdateBookFrameWitness ==
    \E k \in 1..Len(books) :
        /\ Len(books) = 2
        /\ books[k].title = "Emma"
        /\ books[k].author = "Austen"
        /\ books[k].genre = "Sci-Fi"
        /\ books[k].total_copies = 2
        /\ books[k].available_copies = 1
        /\ \E j \in 1..Len(books) : books[j].title = "Dune" /\ books[j].author = "Herbert"
        /\ update_book(Lib, books[k].isbn, "total_copies" :> 1).result = "ok"

\* C16: add_book of an isbn already present fails with DuplicateKey and leaves
\* the catalog, the existing book's available_copies included, as it was; of a
\* new isbn with a genre outside the genre set or total_copies <= 0 it fails
\* with InvalidArgument and inserts nothing; otherwise it inserts, after the
\* books already there, a book with available_copies = total_copies.
AddBookContract ==
    \A isbn \in ALL_ISBNS, title \in TITLES, author \in FIELD_AUTHORS,
       genre \in FIELD_GENRE_INPUTS, total_copies \in NEW_TOTALS :
        LET r == add_book(Lib, isbn, title, author, genre, total_copies) IN
        /\ r.members = members
        /\ IF HasBook(books, isbn)
           THEN /\ r.result = "DuplicateKey"
                /\ r.books = books
           ELSE IF genre \notin genres \/ total_copies <= 0
           THEN /\ r.result \in {"InvalidArgument:genre", "InvalidArgument:total_copies"}
                /\ r.books = books
           ELSE /\ r.result = "ok"
                /\ Len(r.books) = Len(books) + 1
                /\ SubSeq(r.books, 1, Len(books)) = books
                /\ LET b == r.books[Len(r.books)]
                   IN  /\ b.isbn = isbn
                       /\ b.title = title
                       /\ b.author = author
                       /\ b.genre = genre
                       /\ b.total_copies = total_copies
                       /\ b.available_copies = total_copies

\* C16 witness: one book is in the catalog with a copy out and another isbn is
\* free; adding the first again is a DuplicateKey, adding the second fails on
\* its genre and on its total_copies, and succeeds with valid arguments.
AddBookWitness ==
    /\ HasBook(books, "i1")
    /\ GetBook(books, "i1").available_copies < GetBook(books, "i1").total_copies
    /\ ~HasBook(books, "i2")
    /\ add_book(Lib, "i1", "Emma", "Herbert", "Fiction", 2).result = "DuplicateKey"
    /\ add_book(Lib, "i2", "Emma", "Herbert", "InvalidGenre", 2).result = "InvalidArgument:genre"
    /\ add_book(Lib, "i2", "Emma", "Herbert", "Fiction", 0).result = "InvalidArgument:total_copies"
    /\ add_book(Lib, "i2", "Emma", "Herbert", "Fiction", 2).result = "ok"

\* C17: no two members of the collection share a member_id; add_member of a
\* member_id already present fails with DuplicateKey and leaves the collection,
\* the fields of the member of that id included, as it was; of a new member_id
\* with an invalid email it fails with InvalidArgument and appends nothing;
\* otherwise it appends, after the members already there, a member with the
\* given fields and an empty borrowed_books.
MemberIdUniqueness ==
    /\ \A j, k \in 1..Len(members) :
           members[j].member_id = members[k].member_id => j = k
    /\ \A member_id \in ALL_MEMBER_IDS, name \in NAMES, email \in FIELD_EMAILS :
           LET r == add_member(Lib, member_id, name, email) IN
           /\ r.books = books
           /\ IF HasMember(members, member_id)
              THEN /\ r.result = "DuplicateKey"
                   /\ r.members = members
              ELSE IF ~_is_valid_email(email)
              THEN /\ r.result = "InvalidArgument:email"
                   /\ r.members = members
              ELSE /\ r.result = "ok"
                   /\ r.members = Append(members,
                          [member_id |-> member_id, name |-> name, email |-> email,
                           borrowed_books |-> <<>>])

\* C17 witness: M1 is a member holding a book and M2 is not a member; adding
\* M1 again under another name is a DuplicateKey, adding M2 fails on an invalid
\* email and succeeds with a valid one.
MemberIdUniquenessWitness ==
    /\ HasMember(members, "M1")
    /\ GetMember(members, "M1").name = "Ann"
    /\ GetMember(members, "M1").borrowed_books # <<>>
    /\ ~HasMember(members, "M2")
    /\ add_member(Lib, "M1", "Bob", <<"a", "@", "b", ".", "c", "o">>).result = "DuplicateKey"
    /\ add_member(Lib, "M2", "Bob", <<"a", "@", "b", ".", "c">>).result = "InvalidArgument:email"
    /\ add_member(Lib, "M2", "Bob", <<"a", "@", "b", ".", "c", "o">>).result = "ok"

\* C18: every book has total_copies > 0; add_book with total_copies <= 0
\* fails, and update_book, whatever it is given and whether it succeeds or
\* fails, leaves total_copies > 0: a total_copies <= 0 is refused as an
\* InvalidArgument even for a book with no copy out.
TotalCopiesPositive ==
    /\ \A k \in 1..Len(books) : books[k].total_copies > 0
    /\ \A isbn \in ALL_ISBNS, n \in NEW_TOTALS :
           n <= 0 =>
               /\ add_book(Lib, isbn, "Dune", "Herbert", "Fiction", n).result # "ok"
               /\ HasBook(books, isbn) =>
                      LET r == update_book(Lib, isbn, "total_copies" :> n)
                      IN  /\ r.result = "InvalidArgument:total_copies"
                          /\ r.books = books
    /\ \A isbn \in ALL_ISBNS, kwargs \in BOOK_KWARGS :
           HasBook(books, isbn) =>
               GetBook(update_book(Lib, isbn, kwargs).books, isbn).total_copies > 0

\* C18 witness: a book has no copy out and another isbn is free; setting the
\* first's total_copies to 0 or to -1 is refused, and so is adding the second
\* with total_copies 0.
TotalCopiesPositiveWitness ==
    /\ HasBook(books, "i1")
    /\ GetBook(books, "i1").available_copies = GetBook(books, "i1").total_copies
    /\ Holders(members, "i1") = {}
    /\ ~HasBook(books, "i2")
    /\ update_book(Lib, "i1", "total_copies" :> 0).result = "InvalidArgument:total_copies"
    /\ update_book(Lib, "i1", "total_copies" :> (0 - 1)).result = "InvalidArgument:total_copies"
    /\ add_book(Lib, "i2", "Dune", "Herbert", "Fiction", 0).result = "InvalidArgument:total_copies"

\* C19: no member's borrowed_books holds the same isbn at two positions, and
\* borrow_book of an isbn the member already holds, the member being below the
\* limit and the book having a copy in, fails with AlreadyHeld and changes
\* nothing.
NoDuplicateLoans ==
    /\ \A j \in 1..Len(members) :
           \A p, q \in 1..Len(members[j].borrowed_books) :
               members[j].borrowed_books[p] = members[j].borrowed_books[q] => p = q
    /\ \A member_id \in ALL_MEMBER_IDS, isbn \in ALL_ISBNS :
           ( /\ HasMember(members, member_id)
             /\ HasBook(books, isbn)
             /\ Contains(GetMember(members, member_id).borrowed_books, isbn)
             /\ Len(GetMember(members, member_id).borrowed_books) < BORROW_LIMIT
             /\ GetBook(books, isbn).available_copies > 0 )
           => LET r == borrow_book(Lib, member_id, isbn)
              IN  /\ r.result = "AlreadyHeld"
                  /\ r.books = books
                  /\ r.members = members

\* C19 witness: M1 holds i1 and another book, is below the limit, and i1 has a
\* copy in; borrowing i1 again is refused with AlreadyHeld.
NoDuplicateLoansWitness ==
    /\ HasMember(members, "M1")
    /\ HasBook(books, "i1")
    /\ Len(GetMember(members, "M1").borrowed_books) = 2
    /\ Contains(GetMember(members, "M1").borrowed_books, "i1")
    /\ GetBook(books, "i1").available_copies > 0
    /\ borrow_book(Lib, "M1", "i1").result = "AlreadyHeld"

\* C20: update_member, whatever keywords it is given (borrowed_books among
\* them) and whether it succeeds or fails, changes no member's borrowed_books
\* or member_id and no book; it fails with NotFound if the member is absent,
\* with InvalidArgument if a supplied email is invalid, and otherwise succeeds
\* and sets exactly the supplied name and email, keeping the one not supplied.
UpdateMemberFrame ==
    \A member_id \in ALL_MEMBER_IDS, kwargs \in FIELD_MEMBER_KWARGS :
        LET r == update_member(Lib, member_id, kwargs) IN
        /\ r.books = books
        /\ Len(r.members) = Len(members)
        /\ \A j \in 1..Len(members) :
               /\ r.members[j].borrowed_books = members[j].borrowed_books
               /\ r.members[j].member_id = members[j].member_id
        /\ SameMembersBut(members, r.members, member_id)
        /\ IF ~HasMember(members, member_id)
           THEN /\ r.result = "NotFound:member"
                /\ r.members = members
           ELSE IF "email" \in DOMAIN kwargs /\ ~_is_valid_email(kwargs["email"])
           THEN r.result = "InvalidArgument:email"
           ELSE /\ r.result = "ok"
                /\ SuppliedOrKept(kwargs, "name", GetMember(members, member_id),
                                  GetMember(r.members, member_id))
                /\ SuppliedOrKept(kwargs, "email", GetMember(members, member_id),
                                  GetMember(r.members, member_id))

\* C20 witness: M1, renamed and given another address since joining, holds a
\* book; an update supplying a name, an address and an empty borrowed_books
\* succeeds, one supplying an invalid address is refused, and an update of M2,
\* who is not a member, finds nobody.
UpdateMemberFrameWitness ==
    /\ HasMember(members, "M1")
    /\ GetMember(members, "M1").name = "Bob"
    /\ GetMember(members, "M1").email = <<"b", "@", "b", ".", "c", "o">>
    /\ GetMember(members, "M1").borrowed_books # <<>>
    /\ update_member(Lib, "M1", "name" :> "Ann" @@ "email" :> <<"a", "@", "b", ".", "c", "o">>
                                  @@ "borrowed_books" :> <<>>).result = "ok"
    /\ update_member(Lib, "M1", "email" :> <<"a", "@", "b", ".", "c">>).result
           = "InvalidArgument:email"
    /\ update_member(Lib, "M2", "name" :> "Ann").result = "NotFound:member"

(***************************************************************************)
(* The queries.  A Book or Member object is denoted by its position in the *)
(* Library's storage: two values denote the same object exactly if they    *)
(* are the same position.                                                  *)
(***************************************************************************)

\* Library.list_all_books: list(self.books.values()) is a new list whose
\* elements are the Book objects of self.books themselves.
list_all_books(lib) == [k \in 1..Len(lib.books) |-> k]

\* Library.list_all_members: self.members.copy() is a new list whose elements
\* are the Member objects of self.members themselves.
list_all_members(lib) == [k \in 1..Len(lib.members) |-> k]

\* element.available_copies = value, by a caller holding the Book object ref:
\* Book's attributes are plain instance attributes.
BookSetAvailable(lib, ref, value) ==
    [books |-> [lib.books EXCEPT ![ref].available_copies = value],
     members |-> lib.members]

\* element.borrowed_books.append(isbn), by a caller holding the Member object
\* ref: borrowed_books is the member's own list.
MemberAppendBorrowed(lib, ref, isbn) ==
    [books |-> lib.books,
     members |-> [lib.members EXCEPT ![ref].borrowed_books = Append(@, isbn)]]

\* C21: no modification a caller makes to an element of the sequence returned
\* by list_all_books or list_all_members changes a Book or Member of the
\* library: whatever the caller assigns to an element's available_copies or
\* appends to an element's borrowed_books, the library is as it was.
QueryResultsDoNotAlias ==
    /\ \A p \in DOMAIN list_all_books(Lib), value \in NEW_TOTALS :
           BookSetAvailable(Lib, list_all_books(Lib)[p], value) = Lib
    /\ \A p \in DOMAIN list_all_members(Lib), isbn \in ALL_ISBNS :
           MemberAppendBorrowed(Lib, list_all_members(Lib)[p], isbn) = Lib

\* sum(book.total_copies for book in self.books.values()) and the like
RECURSIVE SumOf(_, _)
SumOf(bs, field) ==
    IF bs = <<>> THEN 0 ELSE bs[1][field] + SumOf(Tail(bs), field)

\* Mutant: available_copies is summed from total_copies, so borrowed_copies
\* is always 0.
get_library_status_sums_totals(lib) ==
    LET total_books == Len(lib.books)
        total_members == Len(lib.members)
        total_copies == SumOf(lib.books, "total_copies")
        available_copies == SumOf(lib.books, "total_copies")
        borrowed_copies == total_copies - available_copies
    IN  [total_books |-> total_books, total_members |-> total_members,
         total_copies |-> total_copies, available_copies |-> available_copies,
         borrowed_copies |-> borrowed_copies]

\* Library.get_library_status: it reads the library and assigns nothing.
get_library_status(lib) ==
    LET total_books == Len(lib.books)
        total_members == Len(lib.members)
        total_copies == SumOf(lib.books, "total_copies")
        available_copies == SumOf(lib.books, "available_copies")
        borrowed_copies == total_copies - available_copies
    IN  [total_books |-> total_books, total_members |-> total_members,
         total_copies |-> total_copies, available_copies |-> available_copies,
         borrowed_copies |-> borrowed_copies]

\* the copies of the catalog, one pair per copy a book has, and those of them
\* that are in
AllCopies(bs) ==
    UNION { { <<k, c>> : c \in 1..bs[k].total_copies } : k \in 1..Len(bs) }
CopiesIn(bs) ==
    UNION { { <<k, c>> : c \in 1..bs[k].available_copies } : k \in 1..Len(bs) }

\* C22: get_library_status reports the number of books, the number of
\* members, the number of copies the books have in total, the number of copies
\* that are in, and as borrowed_copies the difference of the last two, which
\* lies between 0 and total_copies.
StatusIsDerived ==
    LET status == get_library_status(Lib) IN
    /\ status.total_books = Cardinality({ books[k].isbn : k \in 1..Len(books) })
    /\ status.total_members = Cardinality({ members[k].member_id : k \in 1..Len(members) })
    /\ status.total_copies = Cardinality(AllCopies(books))
    /\ status.available_copies = Cardinality(CopiesIn(books))
    /\ status.borrowed_copies = Cardinality(AllCopies(books) \ CopiesIn(books))
    /\ status.borrowed_copies = status.total_copies - status.available_copies
    /\ 0 <= status.borrowed_copies
    /\ status.borrowed_copies <= status.total_copies

\* C22 witness: two books and two members, three copies in all, one of them
\* out.
StatusIsDerivedWitness ==
    LET status == get_library_status(Lib) IN
    /\ status.total_books = 2
    /\ status.total_members = 2
    /\ status.total_copies = 3
    /\ status.available_copies = 2
    /\ status.borrowed_copies = 1

(***************************************************************************)
(* search_books.  Titles, authors and queries are sequences of             *)
(* one-character strings over the letters a, b, A, B.                      *)
(***************************************************************************)
SEARCH_ISBNS == {"i1", "i2"}
SEARCH_TITLES == { <<"A", "b", "a">>, <<"B", "b">> }
SEARCH_AUTHORS == { <<"a", "a">>, <<"b", "A", "B">> }
SEARCH_LETTERS == {"a", "b", "A", "B"}

\* the queries: every string of at most two letters, the empty one included
QUERIES ==
    {<<>>} \cup { <<x>> : x \in SEARCH_LETTERS }
           \cup { <<x, y>> : x \in SEARCH_LETTERS, y \in SEARCH_LETTERS }

\* str.lower on one character
LowerChar(c) ==
    CASE c = "A" -> "a"
      [] c = "B" -> "b"
      [] OTHER -> c

\* str.lower
lower(str) == [k \in 1..Len(str) |-> LowerChar(str[k])]

\* needle in haystack, for strings
IsSubstring(needle, haystack) ==
    \E start \in 1..(Len(haystack) - Len(needle) + 1) :
        SubSeq(haystack, start, start + Len(needle) - 1) = needle

\* Mutant: the query and the fields are compared as they are, without lower().
search_books_case_sensitive(lib, query) ==
    SelectSeq(lib.books,
              LAMBDA book : \/ IsSubstring(query, book.title)
                            \/ IsSubstring(query, book.author))

\* Library.search_books: it reads the library and assigns nothing; the result
\* lists the matching books in the order of self.books.values().
search_books(lib, query) ==
    LET query_lower == lower(query) IN
    SelectSeq(lib.books,
              LAMBDA book : \/ IsSubstring(query_lower, lower(book.title))
                            \/ IsSubstring(query_lower, lower(book.author)))

SEARCH_BOOK_KWARGS ==
    { t @@ a @@ g @@ c : t \in Opt("title", SEARCH_TITLES),
                         a \in Opt("author", SEARCH_AUTHORS),
                         g \in Opt("genre", GENRE_INPUTS),
                         c \in Opt("total_copies", COPY_INPUTS) }

AddBookSearch ==
    \E isbn \in SEARCH_ISBNS, title \in SEARCH_TITLES, author \in SEARCH_AUTHORS,
       genre \in GENRE_INPUTS, total_copies \in COPY_INPUTS :
        Apply(add_book(Lib, isbn, title, author, genre, total_copies))

NextSearch ==
    \/ AddBookSearch
    \/ AddMember(LIMIT_MEMBER_IDS, LIMIT_NAMES)
    \/ UpdateBook(SEARCH_ISBNS, SEARCH_BOOK_KWARGS)
    \/ UpdateMember(LIMIT_MEMBER_IDS, LIMIT_MEMBER_KWARGS)
    \/ DeleteBook(SEARCH_ISBNS)
    \/ DeleteMember(LIMIT_MEMBER_IDS)
    \/ BorrowBook(LIMIT_MEMBER_IDS, SEARCH_ISBNS)
    \/ ReturnBook(LIMIT_MEMBER_IDS, SEARCH_ISBNS)

SpecSearch == Init /\ [][NextSearch]_vars

\* two letters are the same but for case
SameLetter(x, y) ==
    \/ x = y
    \/ {x, y} = {"a", "A"}
    \/ {x, y} = {"b", "B"}

\* text contains query as a case-insensitive substring: at some offset every
\* letter of query is, but for case, the letter of text
ContainsIgnoringCase(text, query) ==
    \E offset \in 0..(Len(text) - Len(query)) :
        \A j \in 1..Len(query) : SameLetter(query[j], text[offset + j])

\* the positions of the books found by a query
Found(query) ==
    { k \in 1..Len(books) : \/ ContainsIgnoringCase(books[k].title, query)
                            \/ ContainsIgnoringCase(books[k].author, query) }

\* C23: for every query, search_books returns exactly the books whose title
\* or author contains the query as a case-insensitive substring, each once and
\* in the order of the catalog; the empty query returns all books, and a query
\* no book matches returns the empty sequence.
SearchContract ==
    \A query \in QUERIES :
        LET results == search_books(Lib, query) IN
        /\ Len(results) = Cardinality(Found(query))
        /\ \A p \in 1..Len(results) :
               /\ HasBook(books, results[p].isbn)
               /\ BookIndex(books, results[p].isbn) \in Found(query)
               /\ results[p] = GetBook(books, results[p].isbn)
        /\ \A p, q \in 1..Len(results) :
               p < q => BookIndex(books, results[p].isbn) < BookIndex(books, results[q].isbn)
        /\ query = <<>> => results = books
        /\ Found(query) = {} => results = <<>>

\* C23 witness: the catalog holds Aba by bAB and then Bb by aa; the query BB
\* finds the second book by its title only, aa finds it by its author only, AB
\* finds the first book, b finds both in catalog order, and Ba, which the
\* first book's title contains from its second letter on, finds the first.
SearchWitness ==
    /\ Len(books) = 2
    /\ books[1].title = <<"A", "b", "a">> /\ books[1].author = <<"b", "A", "B">>
    /\ books[2].title = <<"B", "b">> /\ books[2].author = <<"a", "a">>
    /\ search_books(Lib, <<"B", "B">>) = <<books[2]>>
    /\ search_books(Lib, <<"a", "a">>) = <<books[2]>>
    /\ search_books(Lib, <<"A", "B">>) = <<books[1]>>
    /\ search_books(Lib, <<"b">>) = books
    /\ search_books(Lib, <<"B", "a">>) = <<books[1]>>
    /\ search_books(Lib, <<>>) = books

(***************************************************************************)
(* borrow_book and return_book in their steps: the checks, the update of   *)
(* the member's list, the update of the book's counter.  A caller runs     *)
(* the steps of its call in order; the steps of two callers interleave     *)
(* unless locked, in which case a call begins only while no other call is  *)
(* under way.  The other operations run as one step while no call is       *)
(* under way.  A call whose checks raise changes nothing and is left out.  *)
(***************************************************************************)

\* no caller is in the middle of a call
Quiet == \A c \in CALLERS : calls[c].pc = "idle"

\* mutual exclusion: under the lock a call begins only when the others are idle
MayBegin(c) == locked => \A d \in CALLERS \ {c} : calls[d].pc = "idle"

\* borrow_book up to its last check: none of the five raises is taken
PassesBorrowChecks(lib, member_id, isbn) ==
    LET at == _find_member_by_id(lib.members, member_id) IN
    /\ at # 0
    /\ HasBook(lib.books, isbn)
    /\ ~AtLimit(lib.members[at])
    /\ ~(GetBook(lib.books, isbn).available_copies <= 0)
    /\ ~Contains(lib.members[at].borrowed_books, isbn)

\* return_book up to its last check: none of the three raises is taken
PassesReturnChecks(lib, member_id, isbn) ==
    LET at == _find_member_by_id(lib.members, member_id) IN
    /\ at # 0
    /\ HasBook(lib.books, isbn)
    /\ Contains(lib.members[at].borrowed_books, isbn)

\* member.borrowed_books.append(isbn)
ListAppended(ms, member_id, isbn) ==
    [ms EXCEPT ![_find_member_by_id(ms, member_id)].borrowed_books = Append(@, isbn)]

\* Mutant: the counter is left as it is.
CopyTaken_forgotten(bs, isbn) == bs

\* book.available_copies -= 1
CopyTaken(bs, isbn) ==
    [bs EXCEPT ![BookIndex(bs, isbn)].available_copies = @ - 1]

\* member.borrowed_books.remove(isbn), the isbn being in the list
ListRemoved(ms, member_id, isbn) ==
    [ms EXCEPT ![_find_member_by_id(ms, member_id)].borrowed_books = ListRemove(@, isbn)]

\* self.books[isbn].available_copies += 1
CopyGivenBack(bs, isbn) ==
    [bs EXCEPT ![BookIndex(bs, isbn)].available_copies = @ + 1]

BorrowCheck(c) ==
    \E member_id \in MEMBER_IDS, isbn \in ISBNS :
        /\ calls[c].pc = "idle"
        /\ MayBegin(c)
        /\ PassesBorrowChecks(Lib, member_id, isbn)
        /\ calls' = [calls EXCEPT ![c] = [pc |-> "checked", op |-> "borrow",
                                          member_id |-> member_id, isbn |-> isbn]]
        /\ UNCHANGED <<books, members, locked>>

BorrowListUpdate(c) ==
    /\ calls[c].pc = "checked"
    /\ calls[c].op = "borrow"
    /\ members' = ListAppended(members, calls[c].member_id, calls[c].isbn)
    /\ calls' = [calls EXCEPT ![c].pc = "listed"]
    /\ UNCHANGED <<books, locked>>

BorrowCounterUpdate(c) ==
    /\ calls[c].pc = "listed"
    /\ calls[c].op = "borrow"
    /\ books' = CopyTaken(books, calls[c].isbn)
    /\ calls' = [calls EXCEPT ![c] = IDLE]
    /\ UNCHANGED <<members, locked>>

ReturnCheck(c) ==
    \E member_id \in MEMBER_IDS, isbn \in ISBNS :
        /\ calls[c].pc = "idle"
        /\ MayBegin(c)
        /\ PassesReturnChecks(Lib, member_id, isbn)
        /\ calls' = [calls EXCEPT ![c] = [pc |-> "checked", op |-> "return",
                                          member_id |-> member_id, isbn |-> isbn]]
        /\ UNCHANGED <<books, members, locked>>

\* list.remove raises ValueError if the isbn has left the list since the
\* check, and the call ends there
ReturnListUpdate(c) ==
    /\ calls[c].pc = "checked"
    /\ calls[c].op = "return"
    /\ IF Contains(GetMember(members, calls[c].member_id).borrowed_books, calls[c].isbn)
       THEN /\ members' = ListRemoved(members, calls[c].member_id, calls[c].isbn)
            /\ calls' = [calls EXCEPT ![c].pc = "listed"]
       ELSE /\ members' = members
            /\ calls' = [calls EXCEPT ![c] = IDLE]
    /\ UNCHANGED <<books, locked>>

ReturnCounterUpdate(c) ==
    /\ calls[c].pc = "listed"
    /\ calls[c].op = "return"
    /\ books' = CopyGivenBack(books, calls[c].isbn)
    /\ calls' = [calls EXCEPT ![c] = IDLE]
    /\ UNCHANGED <<members, locked>>

InitInterleaved ==
    /\ books = <<>>
    /\ members = <<>>
    /\ calls = [c \in CALLERS |-> IDLE]
    /\ locked \in BOOLEAN

NextInterleaved ==
    \/ Quiet /\ AddBook(ISBNS, LIMIT_TITLES)
    \/ Quiet /\ AddMember(MEMBER_IDS, LIMIT_NAMES)
    \/ Quiet /\ UpdateBook(ISBNS, LIMIT_BOOK_KWARGS)
    \/ Quiet /\ UpdateMember(MEMBER_IDS, LIMIT_MEMBER_KWARGS)
    \/ Quiet /\ DeleteBook(ISBNS)
    \/ Quiet /\ DeleteMember(MEMBER_IDS)
    \/ \E c \in CALLERS : BorrowCheck(c)
    \/ \E c \in CALLERS : BorrowListUpdate(c)
    \/ \E c \in CALLERS : BorrowCounterUpdate(c)
    \/ \E c \in CALLERS : ReturnCheck(c)
    \/ \E c \in CALLERS : ReturnListUpdate(c)
    \/ \E c \in CALLERS : ReturnCounterUpdate(c)

SpecInterleaved == InitInterleaved /\ [][NextInterleaved]_vars

\* 0 <= available_copies <= total_copies, and total_copies - available_copies
\* is the number of members holding the book, for every book
CountersAgreeWithLists ==
    \A k \in 1..Len(books) :
        /\ 0 <= books[k].available_copies
        /\ books[k].available_copies <= books[k].total_copies
        /\ books[k].total_copies - books[k].available_copies
             = Cardinality(Holders(members, books[k].isbn))

\* C24: with the callers excluding one another, so that each borrow_book and
\* return_book runs its steps with no other call in between, the availability
\* and the cross-consistency invariant hold whenever no call is under way.
\* (Without the exclusion a state breaking them is reached: see the witness.)
ExclusionKeepsInvariants ==
    (locked /\ Quiet) => CountersAgreeWithLists

\* C24 witness: without the lock, two members have both passed the
\* availability check for the only copy of a book; both calls have run to
\* their end, both members hold the book and available_copies is -1.
LastCopyRaceWitness ==
    /\ ~locked
    /\ Quiet
    /\ \E k \in 1..Len(books) :
           /\ books[k].total_copies = 1
           /\ books[k].available_copies = 0 - 1
           /\ Cardinality(Holders(members, books[k].isbn)) = 2
    /\ ~CountersAgreeWithLists

\* C25: every loan can be returned: for every member and every isbn in the
\* member's borrowed_books, return_book for that member and isbn succeeds; it
\* does not fail with NotFound for the book nor with NotHeld.
LoansAreReturnable ==
    \A j \in 1..Len(members) :
        \A p \in 1..Len(members[j].borrowed_books) :
            return_book(Lib, members[j].member_id, members[j].borrowed_books[p]).result = "ok"

\* C25 witness: a member holds two books, one of which another member holds
\* too, and each of the three loans can be returned.
LoansAreReturnableWitness ==
    \E j, n \in 1..Len(members) :
        /\ j # n
        /\ Len(members[j].borrowed_books) = 2
        /\ Len(members[n].borrowed_books) = 1
        /\ Contains(members[j].borrowed_books, members[n].borrowed_books[1])
        /\ return_book(Lib, members[j].member_id, members[j].borrowed_books[1]).result = "ok"
        /\ return_book(Lib, members[j].member_id, members[j].borrowed_books[2]).result = "ok"
        /\ return_book(Lib, members[n].member_id, members[n].borrowed_books[1]).result = "ok"

\* C26: delete_book of a book of the catalog fails with Conflict exactly if
\* some member's borrowed_books contains its isbn, and succeeds otherwise: the
\* comparison of available_copies with total_copies agrees with the members'
\* lists.
DeleteConflictIffHeld ==
    \A k \in 1..Len(books) :
        LET r == delete_book(Lib, books[k].isbn)
            held == \E j \in 1..Len(members) :
                        Contains(members[j].borrowed_books, books[k].isbn)
        IN  /\ r.result = "Conflict" <=> held
            /\ r.result = "ok" <=> ~held
            /\ (books[k].available_copies # books[k].total_copies) <=> held

\* C26 witness: of two books one is held by a member and has a copy in, and
\* its deletion is a Conflict; the other is held by nobody and can be deleted.
DeleteConflictIffHeldWitness ==
    \E k, n \in 1..Len(books) :
        /\ Holders(members, books[k].isbn) # {}
        /\ books[k].available_copies > 0
        /\ delete_book(Lib, books[k].isbn).result = "Conflict"
        /\ Holders(members, books[n].isbn) = {}
        /\ delete_book(Lib, books[n].isbn).result = "ok"

\* positions of the members who hold a book
Borrowers(ms) == { j \in 1..Len(ms) : ms[j].borrowed_books # <<>> }

\* The calls that drain a library, in order: return_book for every isbn of
\* every member's borrowed_books, then delete_member for every member, then
\* delete_book for every book.  The value is the library they leave and
\* whether every call succeeded; the calls stop at the first that fails.
RECURSIVE Drain(_)
Drain(lib) ==
    LET Continue(r) == IF r.result = "ok" THEN Drain(After(r))
                       ELSE [lib |-> lib, ok |-> FALSE]
    IN  IF Borrowers(lib.members) # {}
        THEN LET j == CHOOSE h \in Borrowers(lib.members) :
                          \A g \in Borrowers(lib.members) : h <= g
             IN  Continue(return_book(lib, lib.members[j].member_id,
                                      lib.members[j].borrowed_books[1]))
        ELSE IF lib.members # <<>>
        THEN Continue(delete_member(lib, lib.members[1].member_id))
        ELSE IF lib.books # <<>>
        THEN Continue(delete_book(lib, lib.books[1].isbn))
        ELSE [lib |-> lib, ok |-> TRUE]

\* C27: from every reachable state, returning every isbn of every member's
\* borrowed_books, then deleting every member, then deleting every book
\* succeeds call by call and leaves the empty catalog.
CatalogCanBeDrained ==
    /\ Drain(Lib).ok
    /\ Drain(Lib).lib = [books |-> <<>>, members |-> <<>>]

\* C27 witness: two books and two members, a member holding both books and
\* the other holding one of them, so that the draining takes three returns,
\* two member deletions and two book deletions.
CatalogCanBeDrainedWitness ==
    /\ Len(books) = 2
    /\ Len(members) = 2
    /\ \E j, n \in 1..Len(members) :
           /\ Len(members[j].borrowed_books) = 2
           /\ Len(members[n].borrowed_books) = 1
    /\ delete_book(Lib, books[1].isbn).result = "Conflict"
    /\ delete_member(Lib, members[1].member_id).result = "Conflict"
    /\ Drain(Lib).ok

\* the number of loans recorded on the members: the sum of len(borrowed_books)
RECURSIVE LoansRecorded(_)
LoansRecorded(ms) ==
    IF ms = <<>> THEN 0 ELSE Len(ms[1].borrowed_books) + LoansRecorded(Tail(ms))

\* C28: the borrowed_copies reported by get_library_status is the sum over
\* the members of len(borrowed_books).
StatusAgreesWithLoans ==
    get_library_status(Lib).borrowed_copies = LoansRecorded(members)

\* C28 witness: one member holds two books and another holds one of them, and
\* get_library_status reports three borrowed copies.
StatusAgreesWithLoansWitness ==
    /\ \E j, n \in 1..Len(members) :
           /\ Len(members[j].borrowed_books) = 2
           /\ Len(members[n].borrowed_books) = 1
    /\ get_library_status(Lib).borrowed_copies = 3

\* C29: wherever delete_book(i) succeeds, add_book with the same isbn and
\* valid arguments right after it succeeds, the new book has available_copies
\* = total_copies, stands last in the catalog and is held by no member;
\* wherever delete_member(m) succeeds, add_member with the same member_id and
\* a valid email right after it succeeds, and the new member has an empty
\* borrowed_books and stands last in the member order.
IdentifierReuse ==
    /\ \A isbn \in ALL_ISBNS, title \in TITLES, total_copies \in 1..MaxCopies :
           LET d == delete_book(Lib, isbn)
               a == add_book(After(d), isbn, title, "Herbert", "Fiction", total_copies)
           IN  d.result = "ok" =>
                   /\ a.result = "ok"
                   /\ Len(a.books) = Len(books)
                   /\ a.books[Len(a.books)].isbn = isbn
                   /\ a.books[Len(a.books)].total_copies = total_copies
                   /\ a.books[Len(a.books)].available_copies = total_copies
                   /\ Holders(a.members, isbn) = {}
                   /\ a.members = members
    /\ \A member_id \in ALL_MEMBER_IDS, name \in NAMES :
           LET d == delete_member(Lib, member_id)
               a == add_member(After(d), member_id, name, <<"a", "@", "b", ".", "c", "o">>)
           IN  d.result = "ok" =>
                   /\ a.result = "ok"
                   /\ Len(a.members) = Len(members)
                   /\ a.members[Len(a.members)].member_id = member_id
                   /\ a.members[Len(a.members)].name = name
                   /\ a.members[Len(a.members)].borrowed_books = <<>>
                   /\ SubSeq(a.members, 1, Len(members) - 1) = MembersWithout(members, member_id)
                   /\ a.books = books

\* C29 witness: the first of two books has had its total_copies changed and
\* is held by nobody while the second is out, and the first of two members
\* holds nothing while the second holds a book; the first book and the first
\* member can be deleted and added again, which moves them to the end.
IdentifierReuseWitness ==
    /\ Len(books) = 2
    /\ Len(members) = 2
    /\ books[1].total_copies = 2
    /\ books[1].title = "Emma"
    /\ books[2].available_copies < books[2].total_copies
    /\ members[1].borrowed_books = <<>>
    /\ members[1].name = "Bob"
    /\ members[2].borrowed_books # <<>>
    /\ delete_book(Lib, books[1].isbn).result = "ok"
    /\ add_book(After(delete_book(Lib, books[1].isbn)), books[1].isbn,
                "Dune", "Herbert", "Fiction", 1).books[2].isbn = books[1].isbn
    /\ delete_member(Lib, members[1].member_id).result = "ok"
    /\ add_member(After(delete_member(Lib, members[1].member_id)), members[1].member_id,
                  "Ann", <<"a", "@", "b", ".", "c", "o">>).members[2].member_id
           = members[1].member_id

====
